---- MODULE Spec2Model ----
(***************************************************************************)
(* Model of the blip.tv grab pipeline (pipeline.py).                       *)
(*                                                                         *)
(* The project-specific code (the stage list, PrepareDirectories,          *)
(* MoveFiles, the download retry policy and the upload concurrency range)  *)
(* is translated from pipeline.py.  The behaviour of the framework the     *)
(* pipeline is built on (stage sequencing, failure propagation, the         *)
(* concurrency gate, the tracker client) is not part of pipeline.py; it is *)
(* modelled from sections 4 to 7 of the specification.                     *)
(*                                                                         *)
(* Strings are sequences of one-character strings, so that split, join,    *)
(* substring tests and formatting are computed and not assumed.            *)
(***************************************************************************)
EXTENDS Integers, Sequences, FiniteSets, TLC

\* ------------------------------------------------------------------ bounds
\* Number of items the tracker hands out in a run.
NumItems == 2
\* Number of items in a run that exercises the upload gate alone.
NumGateItems == 3
\* Number of items in a run that starts on a disk with stale content.
NumWorkItems == 1
\* Number of supervised processes, and of chunks of output one can write.
NumProcs == 1
MaxChunks == 2
\* Chunks the pseudo-terminal holds before the writing process blocks.
PtyCap == 1

\* --------------------------------------------------------- program constants
\* WgetDownload(max_tries=5)
MAX_TRIES == 5
\* NumberConfigValue(min=1, max=4)
CONCURRENCY_MIN == 1
CONCURRENCY_MAX == 4

\* WgetDownload(accept_on_exit_code=[ 0 ])
ACCEPT_ON_EXIT_CODE == {0}

\* Exit codes the download process is observed to return.
ExitCodes == {0, 1}

\* PrepareDirectories(file_prefix="bliptv")
FILE_PREFIX == <<"b","l","i","p","t","v">>
\* the shared output area, item["data_dir"]
DATA_DIR == << <<"d","a","t","a">> >>
\* "-o", "%(item_dir)s/wget.log"
WGET_LOG == <<"w","g","e","t",".","l","o","g">>
HTTP == <<"h","t","t","p",":","/","/">>

Digit(n) == <<"0","1","2","3","4","5","6","7","8","9">>[n + 1]

RECURSIVE Pad(_, _)
\* "%0wd" % n
Pad(n, w) == IF w = 0 THEN <<>> ELSE Pad(n \div 10, w - 1) \o <<Digit(n % 10)>>

\* Item names the tracker hands out: two URLs that differ but end in the
\* same path segment, a third URL, and a name that is no http URL.
NAME_A == <<"h","t","t","p",":","/","/","b",".","t","v","/","a","/","e","-","1",".","f">>
NAME_B == <<"h","t","t","p",":","/","/","b",".","t","v","/","b","/","e","-","1",".","f">>
NAME_C == <<"h","t","t","p",":","/","/","b",".","t","v","/","a","/","e","-","2",".","f">>
NAME_BAD == <<"f","t","p",":","/","/","b",".","t","v","/","e","-","1",".","f">>
Names == {NAME_A, NAME_B, NAME_C, NAME_BAD}

\* The name of the naming example, and a name that ends in '/'.
NAME_EX ==
    <<"h","t","t","p",":","/","/","b","l","i","p",".","t","v","/",
      "e","x","a","m","p","l","e","-","s","h","o","w","/",
      "e","p","-","1",".","f","l","v">>
NAME_DIR == <<"h","t","t","p",":","/","/","b",".","t","v","/","a","/","e","-","1",".","f","/">>
WorkNames == Names \cup {NAME_EX, NAME_DIR}

\* Item names that are valid URLs with pairwise different last segments.
GateName(k) ==
    <<"h","t","t","p",":","/","/","b",".","t","v","/","a","/","e","-">>
        \o Pad(k, 1) \o <<".","f">>

\* (variant: the files are moved before the stats are collected)
StagesMoveFirst ==
    << "GetItemFromTracker", "PrepareDirectories", "WgetDownload",
       "MoveFiles", "PrepareStatsForTracker", "UploadWithTracker",
       "SendDoneToTracker" >>

\* The stage list of the pipeline, in the order it is written.
Stages ==
    << "GetItemFromTracker", "PrepareDirectories", "WgetDownload",
       "PrepareStatsForTracker", "MoveFiles", "UploadWithTracker",
       "SendDoneToTracker" >>

\* ------------------------------------------------------------ string helpers
\* sub in s
Contains(s, sub) ==
    \E k \in 0..(Len(s) - Len(sub)) :
        \A j \in 1..Len(sub) : s[k + j] = sub[j]

\* s.split('/')[-1]
LastSegment(s) ==
    LET slashes == {k \in 1..Len(s) : s[k] = "/"}
        last == IF slashes = {} THEN 0
                ELSE CHOOSE k \in slashes : \A m \in slashes : m <= k
    IN  SubSeq(s, last + 1, Len(s))

\* The clock readings a run can observe, one second apart.
Times ==
    << [Y |-> 2013, m |-> 10, d |-> 11, H |-> 12, M |-> 0, S |-> 0],
       [Y |-> 2013, m |-> 10, d |-> 11, H |-> 12, M |-> 0, S |-> 1] >>

\* (variant: the day is written before the month)
StrftimeDayFirst(t) ==
    Pad(t.Y, 4) \o Pad(t.d, 2) \o Pad(t.m, 2) \o <<"-">>
        \o Pad(t.H, 2) \o Pad(t.M, 2) \o Pad(t.S, 2)

\* time.strftime("%Y%m%d-%H%M%S")
Strftime(t) ==
    Pad(t.Y, 4) \o Pad(t.m, 2) \o Pad(t.d, 2) \o <<"-">>
        \o Pad(t.H, 2) \o Pad(t.M, 2) \o Pad(t.S, 2)

\* "%s-%s-%s" % (file_prefix, time.strftime(...), file_id)
FileBase(prefix, t, fid) == prefix \o <<"-">> \o Strftime(t) \o <<"-">> \o fid

\* -------------------------------------------------------------- file system
\* A path is the sequence of its segments; joining an empty segment onto a
\* directory ("data/") names the directory itself.
PathJoin(dir, seg) == IF seg = <<>> THEN dir ELSE Append(dir, seg)

IsPrefix(p, q) == Len(p) <= Len(q) /\ SubSeq(q, 1, Len(p)) = p

\* the paths shutil.rmtree(d) leaves of the set ps
RmTree(ps, d) == {p \in ps : ~IsPrefix(d, p)}

\* the directories os.makedirs(d) adds
Ancestors(d) == {SubSeq(d, 1, k) : k \in 1..Len(d)}

VARIABLES
    item,         \* item[i]: the item record of slot i (its properties and status)
    working,      \* the upload gate: number of tokens in use
    queue,        \* the upload gate: items waiting, oldest first
    concurrency,  \* the upload gate: its configured capacity
    dirs,         \* directories that exist
    files,        \* files that exist
    now,          \* index of the current clock reading in Times
    tracker,      \* the item names the tracker has still to hand out
    env,          \* what the downloader can do in this run
    hist,         \* hist[i]: what has happened to item i (observation only)
    sup           \* sup[p]: the supervisor of process p and its process

vars ==
    <<item, working, queue, concurrency, dirs, files, now, tracker, env, hist,
      sup>>

Items == DOMAIN item

NoItem ==
    [ status |-> "None", stage |-> 0, phase |-> "idle",
      item_name |-> <<>>, keys |-> {}, item_dir |-> <<>>, file_id |-> <<>>,
      file_base |-> <<>>, tries |-> 0, stats |-> FALSE ]

StageNames == {Stages[k] : k \in 1..Len(Stages)}

\* started: the stages attempted; retried: those attempted more than once;
\* outcome: how the last attempt of each stage ended; last_code: the exit
\* code of the last download attempt that ended (-1: none yet); spawn_error:
\* a process of the item could not be started; exhausted_at: the number of
\* failed attempts at which a stage gave up (0: none did); ticket: the
\* item was the ticket-th to start waiting at the upload gate (0: it never
\* waited); stats_found: the stats stage found the artifact it read.
NoHist ==
    [ started |-> {}, retried |-> {},
      outcome |-> [s \in StageNames |-> "none"],
      last_code |-> -1, spawn_error |-> FALSE, exhausted_at |-> 0,
      ticket |-> 0, stats_found |-> TRUE ]

\* (variant: the range starts at 0 and ends one higher)
UploadConcurrencyWider == (CONCURRENCY_MIN - 1)..(CONCURRENCY_MAX + 1)

\* NumberConfigValue(min=1, max=4, default="1", name="shared:rsync_threads")
UploadConcurrency == CONCURRENCY_MIN..CONCURRENCY_MAX

\* the sequences of n different names
RECURSIVE Queues(_)
Queues(n) ==
    IF n = 0 THEN {<<>>}
    ELSE UNION { {Append(q, x) : x \in Names \ {q[k] : k \in 1..Len(q)}} :
                 q \in Queues(n - 1) }

\* the sequences of n different names, of all the names
RECURSIVE WorkQueues(_)
WorkQueues(n) ==
    IF n = 0 THEN {<<>>}
    ELSE UNION { {Append(q, x) : x \in WorkNames \ {q[k] : k \in 1..Len(q)}} :
                 q \in WorkQueues(n - 1) }

\* what is left alone by every run
InitCommon ==
    /\ item = [i \in 1..Len(tracker) |-> NoItem]
    /\ hist = [i \in 1..Len(tracker) |-> NoHist]
    /\ working = 0
    /\ queue = <<>>
    /\ concurrency \in UploadConcurrency
    /\ dirs = {DATA_DIR}
    /\ files = {}
    /\ sup = <<>>

\* Any names, a flaky downloader, a clock that runs.
Init ==
    /\ tracker \in Queues(NumItems)
    /\ env = [exit_codes |-> ExitCodes, spawn_fails |-> TRUE,
              stale |-> "absent"]
    /\ now = 1
    /\ InitCommon

\* More items, all of them valid with working directories of their own, and
\* a downloader that succeeds: the items meet at the upload gate only.
GateInit ==
    /\ tracker = [k \in 1..NumGateItems |-> GateName(k)]
    /\ env = [exit_codes |-> ACCEPT_ON_EXIT_CODE, spawn_fails |-> FALSE,
              stale |-> "absent"]
    /\ now = Len(Times)
    /\ InitCommon

\* --------------------------------------------------------------- stage engine
\* The stages are functions of the state: s is the record of the variables
\* the stages read and write, and each stage returns the state it leaves.
Current ==
    [ item |-> item, working |-> working, queue |-> queue, dirs |-> dirs,
      files |-> files, now |-> now, hist |-> hist ]

Commit(s) ==
    \E r \in {s} :
        /\ item' = r.item
        /\ working' = r.working
        /\ queue' = r.queue
        /\ dirs' = r.dirs
        /\ files' = r.files
        /\ now' = r.now
        /\ hist' = r.hist
        /\ UNCHANGED <<concurrency, env, sup>>

LiveIn(s, i) == s.item[i].status \in {"Claimed", "Running"}

\* in state s, item i is at the stage called name, in phase ph
AtIn(s, i, name, ph) ==
    /\ LiveIn(s, i)
    /\ s.item[i].stage \in 1..Len(Stages)
    /\ Stages[s.item[i].stage] = name
    /\ s.item[i].phase = ph

Live(i) == LiveIn(Current, i)
At(i, name, ph) == AtIn(Current, i, name, ph)

\* the item record once its current stage has succeeded; the count of
\* attempts belongs to the stage and ends with it
Completed(rec) ==
    IF rec.stage = Len(Stages)
    THEN [rec EXCEPT !.status = "Succeeded", !.phase = "idle", !.tries = 0]
    ELSE [rec EXCEPT !.status = "Running", !.stage = @ + 1, !.phase = "ready",
                     !.tries = 0]

\* the item record once its current stage has failed for good
Failed(rec) == [rec EXCEPT !.status = "Failed", !.phase = "idle", !.tries = 0]

HStart(h, name) ==
    [h EXCEPT !.started = @ \cup {name},
              !.retried = IF name \in h.started THEN @ \cup {name} ELSE @,
              !.outcome[name] = "running"]

HEnd(h, name, o) == [h EXCEPT !.outcome[name] = o]

\* (variant: one attempt more than max_tries)
MaxTriesOneMore(name) == IF name = "WgetDownload" THEN MAX_TRIES + 1 ELSE 1

\* (variant: max_tries is the policy of every stage)
MaxTriesEveryStage(name) == MAX_TRIES

\* The retry policy of a stage: the download is given max_tries, no other
\* stage is given any.
MaxTries(name) == IF name = "WgetDownload" THEN MAX_TRIES ELSE 1

\* The outcome of an attempt of the stage item i is in.  On success the item
\* moves on; on failure the stage is attempted again while its retry policy
\* allows, and else the item has failed.
Finish(s, i, ok) ==
    LET Outcome(v) ==
            LET name == Stages[v.item[i].stage]
                tries1 == v.item[i].tries + 1
            IN  IF ok
                THEN [v EXCEPT !.item[i] = Completed(@),
                               !.hist[i] = HEnd(@, name, "ok")]
                ELSE IF tries1 < MaxTries(name)
                THEN [v EXCEPT !.item[i].tries = tries1,
                               !.item[i].phase = "ready",
                               !.hist[i] = HEnd(@, name, "fail")]
                ELSE [v EXCEPT !.item[i] = Failed(@),
                               !.hist[i] = [HEnd(@, name, "fail") EXCEPT
                                    !.exhausted_at =
                                        IF tries1 > 1 THEN tries1 ELSE @]]
    \* (the state s is evaluated once, as v)
    IN  CHOOSE r \in {Outcome(v) : v \in {s}} : TRUE

\* the stage item i is in starts an attempt
Begin(s, i) ==
    [s EXCEPT !.item[i].phase = "running",
              !.hist[i] = HStart(@, Stages[s.item[i].stage])]

\* ------------------------------------------------------- PrepareDirectories
\* the four assertions on item_name
ValidName(name) ==
    /\ \E k \in 1..Len(name) : name[k] = "-"
    /\ \E k \in 1..Len(name) : name[k] = "."
    /\ \E k \in 1..Len(name) : name[k] = "/"
    /\ Contains(name, HTTP)

\* "/".join((item["data_dir"], file_id))
DirName(name) == PathJoin(DATA_DIR, LastSegment(name))

\* (variant: the name is checked after the directory has been made afresh)
PrepareDirectoriesCheckLast(s, i, t) ==
    LET name == s.item[i].item_name
        dirname == DirName(name)
        s0 == [Begin(s, i) EXCEPT !.now = t]
    IN  IF ~ValidName(name)
        THEN Finish([s0 EXCEPT
                        !.dirs = RmTree(@, dirname) \cup Ancestors(dirname),
                        !.files = RmTree(@, dirname)],
                    i, FALSE)
        ELSE Finish(
                [s0 EXCEPT
                    !.dirs = RmTree(@, dirname) \cup Ancestors(dirname),
                    !.files = RmTree(@, dirname) \cup
                        {PathJoin(dirname,
                            FileBase(FILE_PREFIX, Times[t], LastSegment(name)))},
                    !.item[i].keys = {"item_dir", "file_id", "file_base"},
                    !.item[i].item_dir = dirname,
                    !.item[i].file_id = LastSegment(name),
                    !.item[i].file_base =
                        FileBase(FILE_PREFIX, Times[t], LastSegment(name))],
                i, TRUE)

\* (variant: a directory that exists is used as it is)
PrepareDirectoriesReuse(s, i, t) ==
    LET name == s.item[i].item_name
        file_id == LastSegment(name)
        dirname == DirName(name)
        file_base == FileBase(FILE_PREFIX, Times[t], file_id)
        s0 == [Begin(s, i) EXCEPT !.now = t]
    IN  IF ~ValidName(name) THEN Finish(s0, i, FALSE)
        ELSE Finish(
                [s0 EXCEPT
                    !.dirs = @ \cup Ancestors(dirname),
                    !.files = @ \cup {PathJoin(dirname, file_base)},
                    !.item[i].keys = {"item_dir", "file_id", "file_base"},
                    !.item[i].item_dir = dirname,
                    !.item[i].file_id = file_id,
                    !.item[i].file_base = file_base],
                i, TRUE)

\* PrepareDirectories.process(item), run at clock reading t
PrepareDirectories(s, i, t) ==
    LET name == s.item[i].item_name
        file_id == LastSegment(name)
        dirname == DirName(name)
        isdir == dirname \in s.dirs
        dirs1 == IF isdir THEN RmTree(s.dirs, dirname) ELSE s.dirs
        files1 == IF isdir THEN RmTree(s.files, dirname) ELSE s.files
        \* os.makedirs raises when a file is at the path
        made == Ancestors(dirname) \cap files1 = {}
        file_base == FileBase(FILE_PREFIX, Times[t], file_id)
        s0 == [Begin(s, i) EXCEPT !.now = t]
    IN  IF ~ValidName(name) THEN Finish(s0, i, FALSE)
        ELSE IF ~made
        THEN Finish([s0 EXCEPT !.dirs = dirs1, !.files = files1], i, FALSE)
        ELSE Finish(
                [s0 EXCEPT
                    !.dirs = dirs1 \cup Ancestors(dirname),
                    !.files = files1 \cup {PathJoin(dirname, file_base)},
                    !.item[i].keys = {"item_dir", "file_id", "file_base"},
                    !.item[i].item_dir = dirname,
                    !.item[i].file_id = file_id,
                    !.item[i].file_base = file_base],
                i, TRUE)

\* ------------------------------------------------------------- WgetDownload
\* (variant: a failed spawn is a failed attempt like any other)
SpawnFailedRetried(s, i) ==
    [Finish(s, i, FALSE) EXCEPT !.hist[i].spawn_error = TRUE]

\* SpawnError: the process could not be started; the item fails at once,
\* whatever the retry policy of the stage.
SpawnFailed(s, i) ==
    [s EXCEPT !.item[i] = Failed(@),
              !.hist[i] = [HEnd(@, Stages[s.item[i].stage], "fail") EXCEPT
                                !.spawn_error = TRUE]]

\* One attempt starts: the process is spawned (or the spawn fails); wget
\* opens its log file and its output document in item_dir.
WgetDownload(s, i, spawned) ==
    IF spawned
    THEN [Begin(s, i) EXCEPT
            !.files = IF s.item[i].item_dir \in s.dirs
                      THEN @ \cup { PathJoin(s.item[i].item_dir, WGET_LOG),
                                    PathJoin(s.item[i].item_dir,
                                             s.item[i].file_base) }
                      ELSE @]
    ELSE SpawnFailed(Begin(s, i), i)

\* --------------------------------------------------- PrepareStatsForTracker
\* file_groups = {"data": ["%(item_dir)s/%(file_base)s"]}: the size of the
\* artifact is read from the working directory.  What the stage does when
\* the artifact is not there is not written in pipeline.py: it fails
\* (strict), or it goes on without a size.
PrepareStatsForTracker(s, i, strict) ==
    LET found == PathJoin(s.item[i].item_dir, s.item[i].file_base) \in s.files
        s0 == [Begin(s, i) EXCEPT !.hist[i].stats_found = found]
    IN  IF found \/ ~strict
        THEN Finish([s0 EXCEPT !.item[i].stats = TRUE], i, TRUE)
        ELSE Finish(s0, i, FALSE)

\* ---------------------------------------------------------------- MoveFiles
\* MoveFiles.process(item)
MoveFiles(s, i) ==
    LET src == PathJoin(s.item[i].item_dir, s.item[i].file_base)
        dst == PathJoin(DATA_DIR, s.item[i].file_base)
        \* os.rename raises when src is missing or dst is a directory
        renamed == src \in s.files /\ dst \notin s.dirs
        files1 == (s.files \ {src}) \cup {dst}
    IN  IF renamed
        THEN Finish([Begin(s, i) EXCEPT
                        !.dirs = RmTree(@, s.item[i].item_dir),
                        !.files = RmTree(files1, s.item[i].item_dir)],
                    i, TRUE)
        ELSE Finish(Begin(s, i), i, FALSE)

\* ---------------------------------------- LimitConcurrent(UploadWithTracker)
\* (variant: the token is counted when the item starts to wait)
LimitConcurrentCountsWaiters(s, i) ==
    IF s.working < concurrency
    THEN [Begin(s, i) EXCEPT !.working = @ + 1]
    ELSE [s EXCEPT !.queue = Append(@, i), !.item[i].phase = "waiting",
                   !.working = @ + 1,
                   !.hist[i].ticket =
                        1 + Cardinality({j \in DOMAIN s.hist :
                                            s.hist[j].ticket > 0})]

\* acquire: the upload starts when a token is free, else the item queues.
LimitConcurrent(s, i) ==
    IF s.working < concurrency
    THEN [Begin(s, i) EXCEPT !.working = @ + 1]
    ELSE [s EXCEPT !.queue = Append(@, i), !.item[i].phase = "waiting",
                   !.hist[i].ticket =
                        1 + Cardinality({j \in DOMAIN s.hist :
                                            s.hist[j].ticket > 0})]

\* (variant: the newest waiting item is admitted first)
ReleaseNewestFirst(s) ==
    IF s.queue # <<>>
    THEN [Begin([s EXCEPT !.queue = SubSeq(@, 1, Len(@) - 1)],
                s.queue[Len(s.queue)])
            EXCEPT !.working = (@ - 1) + 1]
    ELSE [s EXCEPT !.working = @ - 1]

\* release: the token is given back, and the oldest waiting item, if any,
\* takes it and starts its upload.
Release(s) ==
    IF s.queue # <<>>
    THEN [Begin([s EXCEPT !.queue = Tail(@)], Head(s.queue))
            EXCEPT !.working = (@ - 1) + 1]
    ELSE [s EXCEPT !.working = @ - 1]

\* (variant: the token is given back only when the upload succeeded)
GatedEndOnSuccessOnly(s, i, ok) ==
    IF ok THEN Finish(Release(s), i, ok) ELSE Finish(s, i, ok)

\* The gated stage ends for item i: the token is released, whatever the
\* outcome, and the outcome is that of the wrapped upload.
GatedEnd(s, i, ok) == Finish(Release(s), i, ok)

\* The item runs on, stage after stage, until it is suspended (its download
\* process or its upload is running, it waits at the gate, or its completion
\* report is under way) or it has reached a terminal status.
RECURSIVE Advance(_, _, _)
Advance(s, i, in) ==
    LET From(v) ==
            IF ~(LiveIn(v, i) /\ v.item[i].phase = "ready") THEN v
            ELSE LET name == Stages[v.item[i].stage]
                 IN  CASE name = "PrepareDirectories" ->
                            Advance(PrepareDirectories(v, i, in.t), i, in)
                       [] name = "WgetDownload" ->
                            WgetDownload(v, i, in.spawned)
                       [] name = "PrepareStatsForTracker" ->
                            Advance(PrepareStatsForTracker(v, i, in.strict),
                                    i, in)
                       [] name = "MoveFiles" -> Advance(MoveFiles(v, i), i, in)
                       [] name = "UploadWithTracker" -> LimitConcurrent(v, i)
                       [] name = "SendDoneToTracker" -> Begin(v, i)
                       [] OTHER -> v
    \* (the state s is evaluated once, as v)
    IN  CHOOSE r \in {From(v) : v \in {s}} : TRUE

\* what a handler cannot know beforehand: the clock reading, whether a
\* process it spawns starts, and whether the stats stage is strict
Inputs ==
    [t : now..Len(Times), spawned : {TRUE} \cup {~env.spawn_fails},
     strict : {TRUE}]

\* the inputs of a handler that spawns a process but does not read the clock
SpawnInputs == {in \in Inputs : in.t = now}

\* the inputs of a handler that does neither
NoInputs == {in \in SpawnInputs : in.spawned}

\* the inputs of a handler that spawns a process and may collect the stats
ExitInputs == {[in EXCEPT !.strict = b] : in \in SpawnInputs, b \in BOOLEAN}

\* ------------------------------------------------------------------ handlers
\* The tracker answers a claim with item name n: the item is created (items
\* are numbered in the order they are claimed) and its pipeline starts.
GetItemFromTracker(i, in) ==
    /\ item[i].status = "None"
    /\ \A j \in 1..(i - 1) : item[j].status # "None"
    /\ tracker # <<>>
    /\ tracker' = Tail(tracker)
    /\ LET n == Head(tracker)
           s0 == [Current EXCEPT
                    !.item[i] = [NoItem EXCEPT !.status = "Claimed",
                                   !.stage = 1, !.phase = "running",
                                   !.item_name = n],
                    !.hist[i] = HStart(@, Stages[1])]
       IN  Commit(Advance(Finish(s0, i, TRUE), i, in))

\* (variant: the exit of a process is waited for in a blocking call, so that
\* it is seen only once the processes started before it have ended)
WgetDownloadExitBlocking(i, code, in) ==
    /\ \A j \in 1..(i - 1) : ~At(j, "WgetDownload", "running")
    /\ At(i, "WgetDownload", "running")
    /\ code \in env.exit_codes
    /\ UNCHANGED tracker
    /\ LET s0 == [Current EXCEPT !.hist[i].last_code = code]
       IN  Commit(Advance(Finish(s0, i, code \in ACCEPT_ON_EXIT_CODE), i, in))

\* The download process of item i exits with code.
WgetDownloadExit(i, code, in) ==
    /\ At(i, "WgetDownload", "running")
    /\ code \in env.exit_codes
    /\ UNCHANGED tracker
    /\ LET s0 == [Current EXCEPT !.hist[i].last_code = code]
       IN  Commit(Advance(Finish(s0, i, code \in ACCEPT_ON_EXIT_CODE), i, in))

\* The upload of item i ends, well or not.
UploadWithTrackerEnd(i, ok, in) ==
    /\ At(i, "UploadWithTracker", "running")
    \* files = ["%(data_dir)s/%(file_base)s"]: nothing to upload, no success
    /\ ok => PathJoin(DATA_DIR, item[i].file_base) \in files
    /\ UNCHANGED tracker
    /\ Commit(Advance(GatedEnd(Current, i, ok), i, in))

\* The tracker answers (or refuses) the completion report of item i.
SendDoneToTracker(i, ok, in) ==
    /\ At(i, "SendDoneToTracker", "running")
    /\ UNCHANGED tracker
    /\ Commit(Advance(Finish(Current, i, ok), i, in))

\* ----------------------------------------------------- a disk with leftovers
\* What a crashed earlier run can have left at the path d: nothing, an empty
\* directory, or a directory with a log, an artifact and a subdirectory.
StaleKinds == {"absent", "empty", "stale"}

\* a finished artifact of an earlier run, in the output area
OLD == PathJoin(DATA_DIR, <<"o","l","d">>)

StaleDirs(kind, d) ==
    CASE kind = "absent" -> {}
      [] kind = "empty" -> Ancestors(d)
      [] kind = "stale" -> Ancestors(d) \cup {PathJoin(d, <<"t","m","p">>)}

StaleFiles(kind, d) ==
    IF kind = "stale"
    THEN { PathJoin(d, WGET_LOG),
           PathJoin(d, FileBase(FILE_PREFIX, Times[1], d[Len(d)])),
           PathJoin(PathJoin(d, <<"t","m","p">>), <<"x">>) }
    ELSE {}

\* Any names, also the odd ones; a flaky downloader; and a disk on which an
\* earlier run has left something at the working path of the first item.
WorkInit ==
    /\ tracker \in WorkQueues(NumWorkItems)
    /\ env \in {[exit_codes |-> ExitCodes, spawn_fails |-> TRUE, stale |-> k] :
                    k \in StaleKinds}
    /\ now = 1
    /\ item = [i \in 1..Len(tracker) |-> NoItem]
    /\ hist = [i \in 1..Len(tracker) |-> NoHist]
    /\ working = 0
    /\ queue = <<>>
    /\ concurrency = CONCURRENCY_MIN
    /\ dirs = {DATA_DIR} \cup StaleDirs(env.stale, DirName(tracker[1]))
    /\ files = {OLD} \cup StaleFiles(env.stale, DirName(tracker[1]))
    /\ sup = <<>>

\* ------------------------------------------------------------ specification
\* every step item i can take
ItemStep(i) ==
    \/ \E in \in Inputs : GetItemFromTracker(i, in)
    \/ \E in \in ExitInputs, code \in ExitCodes : WgetDownloadExit(i, code, in)
    \/ \E in \in NoInputs, ok \in BOOLEAN : UploadWithTrackerEnd(i, ok, in)
    \/ \E in \in NoInputs, ok \in BOOLEAN : SendDoneToTracker(i, ok, in)

Next == \E i \in Items : ItemStep(i)

Spec == Init /\ [][Next]_vars

\* The scheduling loop is fair to every item, and every spawned process and
\* every upload ends.
FairSpec == Spec /\ \A i \in 1..NumItems : WF_vars(ItemStep(i))

GateSpec == GateInit /\ [][Next]_vars

WorkSpec == WorkInit /\ [][Next]_vars

\* ------------------------------------------------------- process supervisor
\* (variant: the exit check is started before the process is spawned)
RunOrderWaitFirst == <<"openpty", "add_handler", "start_wait", "popen", "stdin">>

\* (variant: the exit check is never started)
RunOrderNoWait == <<"openpty", "add_handler", "popen", "stdin">>

\* AsyncPopenFixed.run, statement after statement: the pseudo-terminal is
\* opened and made non-blocking, the output handler is registered, the
\* process is spawned, stdin is taken from it, the exit check is started.
RunOrder == <<"openpty", "add_handler", "popen", "stdin", "start_wait">>

\* pc: the next statement of run; raised: run ended in an exception;
\* master_fd, handler, pipe, stdin, wait_callback: the fields run sets and
\* the callbacks it registers; proc, todo, written, exit_code: the process,
\* the chunks it has still to write, those it wrote, the code it exited
\* with; pty: chunks written and not yet read; delivered: chunks given to
\* the output sink; returncode: the exit code given on completion; released:
\* how often the descriptors were released; ended: completion was signalled;
\* early: a callback ran while pipe was unset; handled: the output handler
\* has run; failed: a drain raised an I/O error.
NoSup ==
    [ pc |-> 1, raised |-> FALSE, master_fd |-> FALSE, handler |-> FALSE,
      pipe |-> FALSE, stdin |-> FALSE, wait_callback |-> FALSE,
      proc |-> "none", todo |-> 0, written |-> 0, exit_code |-> -1,
      pty |-> <<>>, delivered |-> <<>>, returncode |-> -1, released |-> 0,
      ended |-> FALSE, early |-> FALSE, handled |-> FALSE, failed |-> FALSE ]

Procs == DOMAIN sup

SupInit ==
    /\ tracker = <<>>
    /\ env = [exit_codes |-> ExitCodes, spawn_fails |-> TRUE, stale |-> "absent"]
    /\ now = 1
    /\ item = <<>>
    /\ hist = <<>>
    /\ working = 0
    /\ queue = <<>>
    /\ concurrency = CONCURRENCY_MIN
    /\ dirs = {DATA_DIR}
    /\ files = {}
    /\ sup = [p \in 1..NumProcs |-> NoSup]

\* the supervisor steps leave the pipeline alone
SupFrame ==
    UNCHANGED <<item, working, queue, concurrency, dirs, files, now, tracker,
                env, hist>>

\* One statement of run.  n and spawned are what the spawn meets: the
\* chunks the process is going to write, and whether it starts at all.
RunStep(p, n, spawned) ==
    /\ ~sup[p].raised
    /\ sup[p].pc <= Len(RunOrder)
    /\ LET stmt == RunOrder[sup[p].pc]
           r == [sup[p] EXCEPT !.pc = @ + 1]
       IN  sup' = [sup EXCEPT ![p] =
                CASE stmt = "openpty" -> [r EXCEPT !.master_fd = TRUE]
                  [] stmt = "add_handler" -> [r EXCEPT !.handler = TRUE]
                  [] stmt = "popen" ->
                        IF spawned
                        THEN [r EXCEPT !.pipe = TRUE, !.proc = "running",
                                       !.todo = n]
                        ELSE [r EXCEPT !.raised = TRUE]
                  [] stmt = "stdin" ->
                        \* self.stdin = self.pipe.stdin
                        IF r.pipe THEN [r EXCEPT !.stdin = TRUE]
                        ELSE [r EXCEPT !.raised = TRUE]
                  [] stmt = "start_wait" -> [r EXCEPT !.wait_callback = TRUE]]
    /\ SupFrame

\* The process writes a chunk; it blocks while the pseudo-terminal is full.
ProcWrite(p) ==
    /\ sup[p].proc = "running"
    /\ sup[p].todo > 0
    /\ Len(sup[p].pty) < PtyCap
    /\ sup' = [sup EXCEPT ![p].pty = Append(@, sup[p].written + 1),
                          ![p].written = @ + 1,
                          ![p].todo = @ - 1]
    /\ SupFrame

\* The process exits, once it has written what it had to write.
ProcExit(p, code) ==
    /\ sup[p].proc = "running"
    /\ sup[p].todo = 0
    /\ sup' = [sup EXCEPT ![p].proc = "exited", ![p].exit_code = code]
    /\ SupFrame

\* A drain: what can be read is given to the output sink; an I/O error is
\* logged, and what was to be read stays where it is.
Drain(r, err) ==
    IF err THEN [r EXCEPT !.failed = TRUE]
    ELSE [r EXCEPT !.delivered = @ \o r.pty, !.pty = <<>>]

\* The output handler: the pseudo-terminal is readable.
HandleStdout(p, err) ==
    /\ sup[p].handler
    /\ sup[p].pty # <<>>
    /\ sup' = [sup EXCEPT ![p] =
                IF ~sup[p].pipe THEN [@ EXCEPT !.early = TRUE]
                ELSE [Drain(@, err) EXCEPT !.handled = TRUE]]
    /\ SupFrame

\* (variant: on exit the descriptors are released without a last drain)
EndNoFinalDrain(r) ==
    [r EXCEPT !.released = @ + 1, !.handler = FALSE,
              !.wait_callback = FALSE, !.returncode = r.exit_code,
              !.ended = TRUE]

\* The exit has been seen: one final drain, then the descriptors are
\* released, the callbacks are stopped and the exit code is given.
End(r) ==
    [Drain(r, FALSE) EXCEPT !.released = @ + 1, !.handler = FALSE,
                            !.wait_callback = FALSE,
                            !.returncode = r.exit_code, !.ended = TRUE]

\* The periodic exit check (every 250 ms): drain, then look for the exit.
WaitForEnd(p, err) ==
    /\ sup[p].wait_callback
    /\ sup' = [sup EXCEPT ![p] =
                IF ~sup[p].pipe THEN [@ EXCEPT !.early = TRUE]
                ELSE IF sup[p].proc = "exited" THEN End(Drain(@, err))
                ELSE Drain(@, err)]
    /\ SupFrame

SupRun(p) == \E n \in 0..MaxChunks, spawned \in BOOLEAN : RunStep(p, n, spawned)
SupWrite(p) == ProcWrite(p)
SupExit(p) == \E code \in ExitCodes : ProcExit(p, code)
SupHandle(p) == \E err \in BOOLEAN : HandleStdout(p, err)
SupPoll(p) == \E err \in BOOLEAN : WaitForEnd(p, err)

SupNext ==
    \E p \in Procs :
        SupRun(p) \/ SupWrite(p) \/ SupExit(p) \/ SupHandle(p) \/ SupPoll(p)

SupSpec == SupInit /\ [][SupNext]_vars

\* run goes on, the process writes while it can and exits, and the exit
\* check comes round again and again, not every time with an I/O error.
SupFairSpec ==
    /\ SupSpec
    /\ \A p \in 1..NumProcs :
        /\ WF_vars(SupRun(p))
        /\ WF_vars(SupWrite(p))
        /\ WF_vars(SupExit(p))
        /\ WF_vars(WaitForEnd(p, FALSE))

\* ===================================================================== claims

Terminal(i) == item[i].status \in {"Succeeded", "Failed"}
Waiting(i) == Live(i) /\ item[i].phase = "waiting"
Uploading == {i \in Items : At(i, "UploadWithTracker", "running")}

\* the stage order the claims state
ClaimOrder ==
    << "GetItemFromTracker", "PrepareDirectories", "WgetDownload",
       "PrepareStatsForTracker", "MoveFiles", "UploadWithTracker",
       "SendDoneToTracker" >>

\* no stage after the k-th of ClaimOrder has been attempted for item i
NothingAfter(i, k) ==
    \A m \in (k + 1)..Len(ClaimOrder) : ClaimOrder[m] \notin hist[i].started

\* this step is the end of a download attempt of item i
DownloadEnds(i) ==
    /\ At(i, "WgetDownload", "running")
    /\ <<item[i], hist[i]>>' # <<item[i], hist[i]>>

\* this step leaves item i as it is
Untouched(i) == item'[i] = item[i] /\ hist'[i] = hist[i]

\* ---------------------------------------------------------------------- C1
\* C1: in every reachable state, whatever the number of items and the
\* interleaving of their acquire and release steps, 0 <= inUse <= capacity,
\* and the capacity of the upload gate is a value in 1..4.
C1_GateBounded ==
    /\ 0 <= working
    /\ working <= concurrency
    /\ concurrency \in 1..4

\* the gate is full and an item waits
C1_Witness == working = concurrency /\ queue # <<>>

\* ---------------------------------------------------------------------- C2
\* C2: the gate token is released when the upload ends, on success and on
\* failure alike: whenever no item is inside the upload action, inUse is 0.
C2_NoTokenLost == Uploading = {} => working = 0

\* two uploads have failed and no upload is running
C2_Witness ==
    /\ Uploading = {}
    /\ Cardinality({i \in Items :
            hist[i].outcome["UploadWithTracker"] = "fail"}) >= 2

\* ---------------------------------------------------------------------- C3
\* C3: with max_tries = 5 and accepted codes {0}, the download succeeds at
\* the first attempt that exits with 0 if that is one of the first five; a
\* non-zero exit of one of the first four attempts is followed by another
\* attempt; when the fifth attempt exits non-zero the item is Failed; a
\* sixth attempt is never started.
C3_NoSixthAttempt ==
    \A i \in Items : At(i, "WgetDownload", "running") => item[i].tries + 1 <= 5

C3_Step ==
    \A i \in Items :
        DownloadEnds(i) =>
            LET code == hist'[i].last_code
                n == item[i].tries + 1
            IN  /\ code = 0 =>
                    /\ hist'[i].outcome["WgetDownload"] = "ok"
                    /\ item'[i].stage > item[i].stage
                /\ (code # 0 /\ n < 5) =>
                    \/ /\ (At(i, "WgetDownload", "running"))'
                       /\ item'[i].tries = n
                    \/ /\ hist'[i].spawn_error
                       /\ item'[i].status = "Failed"
                /\ (code # 0 /\ n >= 5) =>
                    /\ item'[i].status = "Failed"
                    /\ hist'[i].outcome["WgetDownload"] = "fail"
                    /\ hist'[i].exhausted_at = 5

C3_DownloadRetries == []C3_NoSixthAttempt /\ [][C3_Step]_vars

\* an item has failed because its fifth download attempt exited non-zero
C3_Witness ==
    \E i \in Items :
        /\ item[i].status = "Failed"
        /\ hist[i].exhausted_at = 5
        /\ hist[i].last_code # 0
        /\ NothingAfter(i, 3)

\* ---------------------------------------------------------------------- C4
\* C4: within one item the stages run in the order claim, directory
\* preparation, download, stats collection, file relocation, upload,
\* completion report: a stage has been started only if every stage before it
\* has succeeded.
C4_StagesInOrder ==
    \A i \in Items :
        \A k \in 1..Len(ClaimOrder) :
            ClaimOrder[k] \in hist[i].started =>
                \A m \in 1..(k - 1) : hist[i].outcome[ClaimOrder[m]] = "ok"

\* an item has run all its stages while another item is under way
C4_Witness ==
    \E i, j \in Items :
        /\ item[i].status = "Succeeded"
        /\ hist[i].started = StageNames
        /\ At(j, "WgetDownload", "running")

\* ---------------------------------------------------------------------- C5
\* C5: only the download is retried; a failure of any other stage makes the
\* item Failed with one attempt of that stage, and once an item is Failed
\* none of its remaining stages is executed.
C5_Inv ==
    \A i \in Items :
        /\ hist[i].retried \subseteq {"WgetDownload"}
        /\ \A k \in 1..Len(ClaimOrder) :
            LET name == ClaimOrder[k]
            IN  hist[i].outcome[name] = "fail" =>
                    /\ name # "WgetDownload" => item[i].status = "Failed"
                    /\ item[i].status = "Failed" => NothingAfter(i, k)

C5_Step == \A i \in Items : item[i].status = "Failed" => Untouched(i)

C5_OnlyDownloadRetried == []C5_Inv /\ [][C5_Step]_vars

\* one item has failed in directory preparation and another in the
\* completion report, each at its only attempt
C5_Witness ==
    \E i, j \in Items :
        /\ item[i].status = "Failed"
        /\ hist[i].outcome["PrepareDirectories"] = "fail"
        /\ item[j].status = "Failed"
        /\ hist[j].outcome["SendDoneToTracker"] = "fail"

\* ---------------------------------------------------------------------- C6
\* C6: a download attempt whose process could not be started makes the item
\* Failed at once and is not retried, whereas an attempt whose process ran
\* and exited with an unacceptable code is retried up to the limit.
C6_Inv ==
    \A i \in Items :
        hist[i].spawn_error =>
            /\ item[i].status = "Failed"
            /\ hist[i].outcome["WgetDownload"] = "fail"
            /\ hist[i].exhausted_at = 0
            /\ NothingAfter(i, 3)

C6_Step ==
    \A i \in Items :
        /\ hist[i].spawn_error => Untouched(i)
        /\ ( /\ DownloadEnds(i)
             /\ hist'[i].last_code # 0
             /\ item[i].tries + 1 < 5
             /\ ~hist'[i].spawn_error )
           => /\ (At(i, "WgetDownload", "running"))'
              /\ "WgetDownload" \in hist'[i].retried

C6_SpawnErrorIsFatal == []C6_Inv /\ [][C6_Step]_vars

\* one item failed at its first spawn, another is in a retried attempt
C6_Witness ==
    \E i, j \in Items :
        /\ hist[i].spawn_error
        /\ "WgetDownload" \notin hist[i].retried
        /\ item[i].status = "Failed"
        /\ At(j, "WgetDownload", "running")
        /\ item[j].tries > 0

\* ---------------------------------------------------------------------- C7
\* C7: the failure of one item is isolated.  The step in which an item fails
\* leaves every other item as it is (but for a waiting item that takes the
\* token the failed upload gives back), writes nothing to the file system,
\* and keeps the gate invariant; and every live item that does not wait at
\* the gate can always take a step, while an item that waits does so behind
\* an upload that is running.
Fails(i) == item[i].status # "Failed" /\ item'[i].status = "Failed"

\* item j is where one of its handlers is waited for, and so can take a
\* step: its download process runs (it exits), its upload runs (it ends), or
\* its completion report is under way (it is answered)
CanStep(j) ==
    \/ At(j, "WgetDownload", "running")
    \/ At(j, "UploadWithTracker", "running")
    \/ At(j, "SendDoneToTracker", "running")

C7_Inv ==
    /\ working <= concurrency
    /\ working = Cardinality(Uploading)
    /\ \A j \in Items :
        /\ (Live(j) /\ ~Waiting(j)) => CanStep(j)
        /\ Waiting(j) => Uploading # {}

C7_Step ==
    \A i \in Items :
        Fails(i) =>
            /\ \A j \in Items \ {i} :
                \/ Untouched(j)
                \/ /\ At(i, "UploadWithTracker", "running")
                   /\ Waiting(j)
                   /\ item'[j] = [item[j] EXCEPT !.phase = "running"]
            \* only a directory preparation that succeeded in this step,
            \* before the failure, has written
            /\ hist'[i].outcome["PrepareDirectories"] # "ok"
                    \/ hist[i].outcome["PrepareDirectories"] = "ok"
                => (dirs' = dirs /\ files' = files)
            /\ working' <= concurrency

C7_FailureIsolated == []C7_Inv /\ [][C7_Step]_vars

\* an item failed in its upload and another item has succeeded
C7_Witness ==
    \E i, j \in Items :
        /\ item[i].status = "Failed"
        /\ hist[i].outcome["UploadWithTracker"] = "fail"
        /\ item[j].status = "Succeeded"

\* ---------------------------------------------------------------------- C8
\* item i is under way and its working directory is in use: it has been
\* prepared and not yet been moved out of
UsesWorkDir(i) ==
    /\ Live(i)
    /\ "item_dir" \in item[i].keys
    /\ "MoveFiles" \notin hist[i].started

\* C8: the working directory is owned by its item alone: no two items under
\* way have the same workDir, also when their names differ but end in the
\* same path segment.
C8_ExclusiveWorkDir ==
    \A i, j \in Items :
        (i # j /\ UsesWorkDir(i) /\ UsesWorkDir(j)) =>
            item[i].item_dir # item[j].item_dir

\* ---------------------------------------------------------------------- C9
\* C9: under a fair scheduler, with every process and every upload ending,
\* every claimed item reaches a terminal status, Succeeded or Failed, and
\* keeps it; Succeeded is reached only after the completion report.
C9_Stable == \A i \in Items : Terminal(i) => item'[i].status = item[i].status

C9_Reported ==
    \A i \in Items :
        item[i].status = "Succeeded" =>
            hist[i].outcome["SendDoneToTracker"] = "ok"

C9_EveryItemEnds ==
    /\ \A i \in 1..NumItems :
        (item[i].status # "None") ~> Terminal(i)
    /\ []C9_Reported
    /\ [][C9_Stable]_vars

\* one item has succeeded after it waited at the gate, another has failed
C9_Witness ==
    \E i, j \in Items :
        /\ item[i].status = "Succeeded"
        /\ hist[i].ticket > 0
        /\ item[j].status = "Failed"

\* --------------------------------------------------------------------- C10
\* C10: an item waits at the upload gate only while inUse = capacity, and
\* waiting items are admitted in the order they started to wait: an item
\* that started to wait later never leaves the wait before an earlier one.
C10_Inv ==
    /\ (\E i \in Items : Waiting(i)) => working = concurrency
    /\ \A i \in Items : Waiting(i) => hist[i].ticket > 0

C10_Step ==
    \A a, b \in Items :
        (Waiting(a) /\ Waiting(b) /\ hist[a].ticket < hist[b].ticket)
            => ~((Waiting(a))' /\ ~(Waiting(b))')

C10_FifoGate == []C10_Inv /\ [][C10_Step]_vars

\* of two items that waited, the earlier has been admitted and uploads while
\* the later still waits
C10_Witness ==
    \E a, b \in Items :
        /\ hist[a].ticket > 0
        /\ hist[a].ticket < hist[b].ticket
        /\ a \in Uploading
        /\ Waiting(b)

\* --------------------------------------------------------------------- C11
\* item i is suspended: its download process is polled, or it waits for
\* capacity at the upload gate
Suspended(i) == At(i, "WgetDownload", "running") \/ Waiting(i)

\* C11: while one item is suspended (polling its download process or waiting
\* at the upload gate), every other live item that does not itself wait at
\* the gate is able to take its next step, and the next item can be claimed:
\* a suspension never blocks the scheduling loop.
C11_SuspensionYields ==
    \A i \in Items :
        Suspended(i) =>
            \A j \in Items \ {i} :
                /\ (Live(j) /\ ~Waiting(j)) => ENABLED ItemStep(j)
                /\ ( /\ item[j].status = "None"
                     /\ \A k \in 1..(j - 1) : item[k].status # "None" )
                   => ENABLED ItemStep(j)

\* one item waits at the gate, another polls its download, a third uploads
C11_Witness ==
    \E i, j, k \in Items :
        /\ Waiting(i)
        /\ At(j, "WgetDownload", "running")
        /\ At(k, "UploadWithTracker", "running")

\* --------------------------------------------------------------------- C12
\* the entries below the directory d
Under(ds, fs, d) == {p \in ds \cup fs : IsPrefix(d, p) /\ p # d}

\* this step runs the directory preparation of item i
Prepares(i) ==
    /\ item[i].status = "None"
    /\ "PrepareDirectories" \in hist'[i].started

\* C12: directory preparation is idempotent re-entry.  Whatever was at the
\* target path before (nothing, an empty directory, a directory with stale
\* files), prepare of a valid name succeeds, and after it the workDir exists
\* and holds the placeholder named fileBase and nothing of before: the only
\* other entry there can be is the log of the download the same step has
\* started, and when no download was started the placeholder is alone.
C12_Step ==
    \A i \in Items :
        (Prepares(i) /\ ValidName(item'[i].item_name)) =>
            LET d == item'[i].item_dir
                placeholder == PathJoin(d, item'[i].file_base)
                under == Under(dirs', files', d)
            IN  /\ hist'[i].outcome["PrepareDirectories"] = "ok"
                /\ d \in dirs'
                /\ placeholder \in files'
                /\ under \subseteq {placeholder, PathJoin(d, WGET_LOG)}
                /\ hist'[i].spawn_error => under = {placeholder}

C12_PrepareIsFresh == [][C12_Step]_vars

\* the path held stale files, the item was prepared, no download started
C12_Witness ==
    \E i \in Items :
        /\ env.stale = "stale"
        /\ hist[i].outcome["PrepareDirectories"] = "ok"
        /\ hist[i].spawn_error
        /\ Under(dirs, files, item[i].item_dir)
                = {PathJoin(item[i].item_dir, item[i].file_base)}

\* --------------------------------------------------------------------- C13
\* this step runs the relocation of item i (it follows the end of the
\* download and the stats in the same handler, neither of which writes)
Relocates(i) ==
    /\ At(i, "WgetDownload", "running")
    /\ "MoveFiles" \in hist'[i].started

\* C13: finalize moves the artifact from workDir/fileBase to
\* dataDir/fileBase and then removes workDir, and nothing else changes; when
\* the source artifact is absent, finalize fails, the item becomes Failed,
\* and dataDir (workDir included) is left exactly as it was.
C13_Step ==
    \A i \in Items :
        Relocates(i) =>
            LET d == item[i].item_dir
                src == PathJoin(d, item[i].file_base)
                dst == PathJoin(DATA_DIR, item[i].file_base)
            IN  IF src \in files
                THEN /\ hist'[i].outcome["MoveFiles"] = "ok"
                     /\ dst \in files'
                     /\ src \notin files'
                     /\ d \notin dirs'
                     /\ Under(dirs', files', d) = {}
                     /\ dirs' = {p \in dirs : ~IsPrefix(d, p)}
                     /\ files' = {p \in files : ~IsPrefix(d, p)} \cup {dst}
                ELSE /\ hist'[i].outcome["MoveFiles"] = "fail"
                     /\ item'[i].status = "Failed"
                     /\ dirs' = dirs
                     /\ files' = files

C13_FinalizeMoves == [][C13_Step]_vars

\* --------------------------------------------------------------------- C14
\* the structural markers of a name: a scheme separator, a host/path
\* separator after it, and a filename component that is not empty
HasMarkers(name) ==
    /\ Contains(name, <<"h","t","t","p",":","/","/">>)
    /\ \E k \in 8..Len(name) : name[k] = "/"
    /\ \E k \in 1..Len(name) : name[k] = "/" /\ k < Len(name)
                                /\ \A m \in (k + 1)..Len(name) : name[m] # "/"

\* C14: prepare accepts an item name exactly when it has the structural
\* markers and fails otherwise; on rejection the item is Failed, no directory
\* or file is created or removed, and workDir, fileId and fileBase stay unset.
C14_Step ==
    \A i \in Items :
        Prepares(i) =>
            LET accepted == hist'[i].outcome["PrepareDirectories"] = "ok"
            IN  /\ accepted <=> HasMarkers(item'[i].item_name)
                /\ ~accepted =>
                    /\ item'[i].status = "Failed"
                    /\ dirs' = dirs
                    /\ files' = files
                    /\ item'[i].keys = {}
                    /\ item'[i].item_dir = <<>>
                    /\ item'[i].file_id = <<>>
                    /\ item'[i].file_base = <<>>

C14_NameValidation == [][C14_Step]_vars

\* --------------------------------------------------------------------- C15
\* the number a string of decimal digits denotes (-1: not a number)
RECURSIVE Value(_)
Value(ds) ==
    IF ds = <<>> THEN 0
    ELSE LET c == ds[Len(ds)]
             v == CASE c = "0" -> 0 [] c = "1" -> 1 [] c = "2" -> 2
                    [] c = "3" -> 3 [] c = "4" -> 4 [] c = "5" -> 5
                    [] c = "6" -> 6 [] c = "7" -> 7 [] c = "8" -> 8
                    [] c = "9" -> 9 [] OTHER -> -1
             rest == Value(SubSeq(ds, 1, Len(ds) - 1))
         IN  IF v < 0 \/ rest < 0 THEN -1 ELSE 10 * rest + v

\* fid is what follows the last '/' of name
AfterLastSlash(name, fid) ==
    \E k \in 1..Len(name) :
        /\ name[k] = "/"
        /\ fid = SubSeq(name, k + 1, Len(name))
        /\ \A m \in 1..Len(fid) : fid[m] # "/"

\* base is prefix-YYYYMMDD-HHMMSS-fid for the clock reading tm
IsFileBase(base, prefix, tm, fid) ==
    LET p == Len(prefix)
        stamp == SubSeq(base, p + 2, p + 16)
    IN  /\ Len(base) = p + 17 + Len(fid)
        /\ SubSeq(base, 1, p) = prefix
        /\ base[p + 1] = "-"
        /\ Value(SubSeq(stamp, 1, 4)) = tm.Y
        /\ Value(SubSeq(stamp, 5, 6)) = tm.m
        /\ Value(SubSeq(stamp, 7, 8)) = tm.d
        /\ stamp[9] = "-"
        /\ Value(SubSeq(stamp, 10, 11)) = tm.H
        /\ Value(SubSeq(stamp, 12, 13)) = tm.M
        /\ Value(SubSeq(stamp, 14, 15)) = tm.S
        /\ base[p + 17] = "-"
        /\ SubSeq(base, p + 18, Len(base)) = fid

\* C15: for every name prepare accepts, fileId is what follows the last '/'
\* of the name, fileBase is prefix-YYYYMMDD-HHMMSS-fileId, the working path
\* is dataDir/fileId, and the only path relocation puts anything at is
\* dataDir/fileBase; 'http://blip.tv/example-show/ep-1.flv' with 'bliptv' at
\* 2013-10-11 12:00:00 gives 'ep-1.flv' and
\* 'bliptv-20131011-120000-ep-1.flv'.
C15_Step ==
    \A i \in Items :
        /\ (Prepares(i) /\ hist'[i].outcome["PrepareDirectories"] = "ok") =>
            LET name == item'[i].item_name
                fid == item'[i].file_id
                base == item'[i].file_base
            IN  /\ AfterLastSlash(name, fid)
                /\ IsFileBase(base, <<"b","l","i","p","t","v">>, Times[now'], fid)
                /\ item'[i].item_dir =
                        (IF fid = <<>> THEN DATA_DIR ELSE Append(DATA_DIR, fid))
                /\ ( /\ name = NAME_EX
                     /\ Times[now'] = [Y |-> 2013, m |-> 10, d |-> 11,
                                       H |-> 12, M |-> 0, S |-> 0] )
                   => /\ fid = <<"e","p","-","1",".","f","l","v">>
                      /\ base = <<"b","l","i","p","t","v","-",
                                  "2","0","1","3","1","0","1","1","-",
                                  "1","2","0","0","0","0","-",
                                  "e","p","-","1",".","f","l","v">>
        /\ Relocates(i) =>
                files' \ files \subseteq {Append(DATA_DIR, item[i].file_base)}

C15_Naming == [][C15_Step]_vars

\* the item of the example has been prepared at 12:00:00 and its artifact
\* is at the final path
C15_Witness ==
    \E i \in Items :
        /\ item[i].item_name = NAME_EX
        /\ item[i].file_base[22] = "0"
        /\ hist[i].outcome["MoveFiles"] = "ok"
        /\ Append(DATA_DIR, item[i].file_base) \in files

\* --------------------------------------------------------------------- C16
\* C16: in the supervisor's run every handle field (master descriptor,
\* output handler registration, process handle pipe, stdin) is set before the
\* periodic exit check is started, and however run, the exit check and the
\* output handler interleave, neither callback runs while pipe is unset.
C16_HandlesBeforeExitCheck ==
    \A p \in Procs :
        /\ ~sup[p].early
        /\ sup[p].wait_callback =>
                /\ sup[p].master_fd
                /\ sup[p].handler
                /\ sup[p].pipe
                /\ sup[p].stdin

\* both callbacks have run: output was handed over by the output handler
\* and the exit check has seen the exit
C16_Witness == \E p \in Procs : sup[p].handled /\ sup[p].ended

\* --------------------------------------------------------------------- C17
\* C17: when the process has exited the supervisor drains a last time,
\* then releases the descriptors and gives the exit code: on completion
\* every chunk the process wrote has been delivered, in order; nothing is
\* delivered after the release; the descriptors are released exactly once.
C17_Inv ==
    \A p \in Procs :
        /\ sup[p].released <= 1
        /\ sup[p].ended =>
            /\ sup[p].released = 1
            /\ sup[p].proc = "exited"
            /\ sup[p].returncode = sup[p].exit_code
            /\ sup[p].delivered = [k \in 1..sup[p].written |-> k]

C17_Step ==
    \A p \in Procs :
        sup[p].released > 0 =>
            /\ sup'[p].delivered = sup[p].delivered
            /\ sup'[p].released = sup[p].released

C18_ExitDetected ==
    \A p \in 1..NumProcs :
        /\ (sup[p].proc # "none") ~> (sup[p].proc = "exited")
        /\ (sup[p].proc = "exited") ~> sup[p].ended

\* a supervisor has completed although the process had more to write than
\* the pseudo-terminal holds and a drain had failed
C18_Witness ==
    \E p \in Procs :
        /\ sup[p].ended
        /\ sup[p].failed
        /\ sup[p].written > PtyCap

\* --------------------------------------------------------------------- C19
\* item i holds a token: its upload has begun and has not ended
Holds(i) == hist[i].outcome["UploadWithTracker"] = "running"

\* C19: inUse is exactly the number of items that are executing the upload
\* action.  An item holds a token only while it is inside the upload stage:
\* none while it waits at the gate, in any other stage, or once it is
\* Succeeded or Failed; and as the holders are counted once each, none holds
\* two.
C19_TokenPerUpload ==
    /\ working = Cardinality({i \in Items : Holds(i)})
    /\ \A i \in Items :
        /\ Holds(i) <=> At(i, "UploadWithTracker", "running")
        /\ Waiting(i) <=> \E k \in 1..Len(queue) : queue[k] = i
    /\ \A k, m \in 1..Len(queue) : queue[k] = queue[m] => k = m

\* two items upload at once and a third has ended after its upload
C19_Witness ==
    \E i, j, k \in Items :
        /\ i # j
        /\ Holds(i)
        /\ Holds(j)
        /\ Terminal(k)
        /\ "UploadWithTracker" \in hist[k].started

\* --------------------------------------------------------------------- C20
\* C20: whenever a stage of an item reads the artifact, the artifact is at
\* the path the stage uses.  The stats stage has found it at
\* workDir/fileBase; an item that is at the upload (waiting or uploading) has
\* been relocated and its artifact is at dataDir/fileBase; and the
\* completion report is sent only for an item whose upload succeeded.
C20_ArtifactWhereRead ==
    \A i \in Items :
        /\ "PrepareStatsForTracker" \in hist[i].started =>
                /\ hist[i].stats_found
                /\ hist[i].outcome["MoveFiles"] # "none" =>
                        hist[i].outcome["PrepareStatsForTracker"] = "ok"
        /\ (Waiting(i) \/ At(i, "UploadWithTracker", "running")) =>
                /\ hist[i].outcome["MoveFiles"] = "ok"
                /\ PathJoin(DATA_DIR, item[i].file_base) \in files
        /\ "SendDoneToTracker" \in hist[i].started =>
                hist[i].outcome["UploadWithTracker"] = "ok"
====
